---- MODULE Spec2Model ----
(***************************************************************************)
(* A model of calendar-tool: the free-slot computation of                  *)
(* calendar_tool/analysis/analysis.py (find_free_slots), the item filter   *)
(* of get_calendar_events, and the analyze_calendar run with the           *)
(* configuration validation of calendar_tool/config/config.py, the         *)
(* loading and updating of the configuration file, and the dispatch of     *)
(* calendar_tool/main.py.                                                  *)
(*                                                                         *)
(* Time is counted in minutes.  A datetime is the number of minutes since  *)
(* midnight of date 0, a datetime.time is a record [hour, minute] and a    *)
(* timedelta is a number of minutes.  A date is a day number, day 0 being  *)
(* a Monday.                                                               *)
(***************************************************************************)
EXTENDS Integers, Sequences, FiniteSets, TLC

VARIABLES
    pc,                        \* position of the run
    events,                    \* list of events {start, end}
    work_start_time,           \* datetime.time, or NoTime before it is parsed
    work_end_time,
    min_slot_duration,         \* timedelta
    free_slots,                \* the list find_free_slots returns
    gaps,                      \* every candidate gap the sweep looked at
    conf,                      \* the configuration dictionary
    item,                      \* the calendar item the filter looked at last
    should_include,            \* the filter's decision on that item
    n_items,                   \* items of the calendar view consumed so far
    total_duration,
    total_effective_duration,
    total_work_time,
    free_percentage,
    message,                   \* the last line printed
    exit_code,                 \* the process exit status, NoExit while running
    mode,                      \* args.mode, the subcommand
    args,                      \* the parsed command line
    config_file,               \* the configuration file on disk
    token,                     \* whether a saved token exists
    account,                   \* the account object of the run
    today,                     \* datetime.now().date()
    start_date,                \* the date range of the analysis
    end_date

cli == <<mode, args, config_file, token>>
range == <<today, start_date, end_date>>

vars == <<pc, events, work_start_time, work_end_time, min_slot_duration,
          free_slots, gaps, conf, item, should_include, n_items,
          total_duration, total_effective_duration, total_work_time,
          free_percentage, message, exit_code, cli, account, range>>

-----------------------------------------------------------------------------
(* Bounds of the model *)

MaxEvents == 2        \* longest event list handed to find_free_slots
MaxDate == 1          \* events start on the dates 0 .. MaxDate
MaxItems == 2         \* most items one calendar view returns
MaxToday == 55        \* the current date is one of the MaxToday + 1 days from day 7

(* Program constants *)

MinutesPerHour == 60
HoursPerDay == 24
MinSlotMinutes == 45
DaysPerWeek == 7
WorkWeekSpan == 4

MinutesPerDay == HoursPerDay * MinutesPerHour

NoTime == [hour |-> -1, minute |-> -1]
\* no exit status yet: not a status the process can end with
NoExit == 0 - 1
NoItem == [kind |-> "none"]
\* no date yet: the range is not computed
NoDate == 0 - 1
\* an option that was not given on the command line (None)
NoneArg == <<"None">>
\* a command line without options.  An option the subcommand's parser does
\* not define (hasattr is false) takes the same branches as one left out.
NoArgs == [start_time |-> NoneArg, end_time |-> NoneArg, server |-> "",
           client_id |-> "", tenant_id |-> "", use_oauth |-> "None"]
\* no configuration file in the application directory
Missing == [kind |-> "missing"]
\* a configuration file json.load cannot read
Corrupt == [kind |-> "corrupt"]

-----------------------------------------------------------------------------
(* datetime arithmetic *)

\* datetime.time(hour, minute)
Time(h, m) == [hour |-> h, minute |-> m]

\* minutes since midnight of a datetime.time
MinuteOfDay(t) == t.hour * MinutesPerHour + t.minute

\* datetime.combine(date, time)
Combine(date, t) == date * MinutesPerDay + MinuteOfDay(t)

\* datetime.date()
DateOf(dt) == dt \div MinutesPerDay

\* datetime.time()
TimeOf(dt) == Time((dt % MinutesPerDay) \div MinutesPerHour, dt % MinutesPerHour)

-----------------------------------------------------------------------------
(* find_free_slots *)

\* the grouping key of an event: event["start"].date()
GroupKeyNone(event) == 0
GroupKey(event) == DateOf(event.start)

\* the keys of events_by_date, in the order the dictionary holds them: the
\* order in which each date first appears in the list
RECURSIVE DateKeys(_)
DateKeys(evs) ==
    IF evs = <<>> THEN <<>>
    ELSE LET front == DateKeys(SubSeq(evs, 1, Len(evs) - 1))
             date == GroupKey(evs[Len(evs)])
         IN IF \E i \in 1..Len(front) : front[i] = date
            THEN front
            ELSE Append(front, date)

\* events_by_date[date]: the events of that date, in input order
DateEvents(evs, date) == SelectSeq(evs, LAMBDA e : GroupKey(e) = date)

\* insertion of e into a list sorted by start, after the events that do not
\* start later (list.sort is stable)
RECURSIVE InsertByStart(_, _)
InsertByStart(sorted, e) ==
    IF sorted = <<>> THEN <<e>>
    ELSE IF sorted[Len(sorted)].start <= e.start
         THEN Append(sorted, e)
         ELSE Append(InsertByStart(SubSeq(sorted, 1, Len(sorted) - 1), e),
                     sorted[Len(sorted)])

RECURSIVE InsertionSort(_)
InsertionSort(evs) ==
    IF evs = <<>> THEN <<>>
    ELSE InsertByStart(InsertionSort(SubSeq(evs, 1, Len(evs) - 1)), evs[Len(evs)])

\* date_events.sort(key=lambda e: e["start"])
Unsorted(evs) == evs
SortByStart(evs) == InsertionSort(evs)

\* "Only consider slots longer than minimum duration"
LongEnoughStrict(slot_duration, min_duration) == slot_duration > min_duration
LongEnoughAlways(slot_duration, min_duration) == TRUE
LongEnough(slot_duration, min_duration) == slot_duration >= min_duration

\* "Move current time to end of this event"
AdvanceAlways(current_time, event_end) == event_end
Advance(current_time, event_end) ==
    IF event_end > current_time THEN event_end ELSE current_time

\* a candidate gap [from, to) of a date
Gap(date, from, to) ==
    [date |-> date, start |-> TimeOf(from), end |-> TimeOf(to), duration |-> to - from]

\* the dictionary appended to free_slots
SlotEffectiveReversed(date, from, to, min_duration) ==
    [date |-> date, start |-> TimeOf(from), end |-> TimeOf(to),
     duration |-> to - from, effective_duration |-> min_duration - (to - from)]
Slot(date, from, to, min_duration) ==
    [date |-> date, start |-> TimeOf(from), end |-> TimeOf(to),
     duration |-> to - from, effective_duration |-> (to - from) - min_duration]

\* the candidate gap [from, to) is looked at: logged, and emitted when it is
\* long enough
Consider(st, date, from, to, min_duration) ==
    [st EXCEPT !.gaps = Append(@, Gap(date, from, to)),
               !.slots = IF LongEnough(to - from, min_duration)
                         THEN Append(@, Slot(date, from, to, min_duration))
                         ELSE @]

\* one pass of the body of "for event in date_events"
SweepEvent(st, event, date, day_start, day_end, min_duration) ==
    IF event.end <= day_start \/ event.start >= day_end
    THEN st
    ELSE LET event_start == IF event.start < day_start THEN day_start ELSE event.start
             event_end == IF event.end > day_end THEN day_end ELSE event.end
             st1 == IF event_start > st.current_time
                    THEN Consider(st, date, st.current_time, event_start, min_duration)
                    ELSE st
         IN [st1 EXCEPT !.current_time = Advance(@, event_end)]

RECURSIVE SweepEvents(_, _, _, _, _, _)
SweepEvents(st, date_events, date, day_start, day_end, min_duration) ==
    IF date_events = <<>> THEN st
    ELSE SweepEvent(
            SweepEvents(st, SubSeq(date_events, 1, Len(date_events) - 1),
                        date, day_start, day_end, min_duration),
            date_events[Len(date_events)], date, day_start, day_end, min_duration)

\* one pass of the body of "for date, date_events in events_by_date.items()"
SweepDate(st, evs, date, start_time, end_time, min_duration) ==
    LET day_start == Combine(date, start_time)
        day_end == Combine(date, end_time)
        swept == SweepEvents([st EXCEPT !.current_time = day_start],
                             SortByStart(DateEvents(evs, date)),
                             date, day_start, day_end, min_duration)
    IN IF swept.current_time < day_end
       THEN Consider(swept, date, swept.current_time, day_end, min_duration)
       ELSE swept

RECURSIVE SweepDates(_, _, _, _, _)
SweepDates(evs, dates, start_time, end_time, min_duration) ==
    IF dates = <<>> THEN [slots |-> <<>>, gaps |-> <<>>, current_time |-> 0]
    ELSE SweepDate(
            SweepDates(evs, SubSeq(dates, 1, Len(dates) - 1),
                       start_time, end_time, min_duration),
            evs, dates[Len(dates)], start_time, end_time, min_duration)

\* find_free_slots(events, work_start_time, work_end_time, min_slot_duration):
\* .slots is the list returned, .gaps the candidate gaps it looked at
FindFreeSlots(evs, start_time, end_time, min_duration) ==
    SweepDates(evs, DateKeys(evs), start_time, end_time, min_duration)

-----------------------------------------------------------------------------
(* Inputs of a direct call of find_free_slots *)

Dates == 0 .. MaxDate

\* times of day events are drawn from: 09:00, 09:44, 09:45, 10:30
GridTimes == {Time(9, 0), Time(9, 44), Time(9, 45), Time(10, 30)}

\* times of day the work window is drawn from: 09:00, 09:45, 11:15
WindowTimes == {Time(9, 0), Time(9, 45), Time(11, 15)}

GridDateTimes == {Combine(d, t) : d \in Dates, t \in GridTimes}

\* an event starts on one of the dates and lasts at most a day, so it ends
\* the same day or the next
GridEvents ==
    {e \in [start : GridDateTimes, end : GridDateTimes] :
        /\ e.start < e.end
        /\ e.end - e.start <= MinutesPerDay}

RECURSIVE SeqsUpTo(_, _)
SeqsUpTo(S, n) ==
    IF n = 0 THEN {<<>>}
    ELSE LET shorter == SeqsUpTo(S, n - 1)
         IN shorter \cup {Append(s, x) : s \in {t \in shorter : Len(t) = n - 1}, x \in S}

MinDurations == {MinSlotMinutes}

InitCall ==
    /\ pc = "call"
    /\ events \in SeqsUpTo(GridEvents, MaxEvents)
    /\ work_start_time \in WindowTimes
    /\ work_end_time \in WindowTimes
    /\ min_slot_duration \in MinDurations
    /\ free_slots = <<>>
    /\ gaps = <<>>
    /\ conf = [start_time |-> <<>>, end_time |-> <<>>, use_oauth |-> TRUE,
               client_id |-> "", tenant_id |-> "", server |-> ""]
    /\ item = NoItem
    /\ should_include = FALSE
    /\ n_items = 0
    /\ total_duration = 0
    /\ total_effective_duration = 0
    /\ total_work_time = 0
    /\ free_percentage = 0
    /\ message = ""
    /\ exit_code = NoExit
    /\ mode = "analyze"
    /\ args = NoArgs
    /\ config_file = Missing
    /\ token = TRUE
    /\ account = "none"
    /\ today = DaysPerWeek
    /\ start_date = NoDate
    /\ end_date = NoDate

\* the caller's list after the call: find_free_slots only iterates it; the
\* lists it appends to and sorts are the ones it creates in events_by_date
SortedInPlace(evs) == SortByStart(evs)
EventsArgument(evs) == evs

\* the call of find_free_slots, from entry to its return statement
FindFreeSlotsCall ==
    /\ pc = "call"
    /\ LET r == FindFreeSlots(events, work_start_time, work_end_time, min_slot_duration)
       IN /\ free_slots' = r.slots
          /\ gaps' = r.gaps
    /\ events' = EventsArgument(events)
    /\ pc' = "returned"
    /\ UNCHANGED <<work_start_time, work_end_time, min_slot_duration,
                   conf, item, should_include, n_items, total_duration,
                   total_effective_duration, total_work_time, free_percentage,
                   message, exit_code>>
    /\ UNCHANGED <<cli, account, range>>

\* a second call with the arguments of the first, as the first left them
FindFreeSlotsAgain ==
    /\ pc = "returned"
    /\ LET r == FindFreeSlots(events, work_start_time, work_end_time, min_slot_duration)
       IN /\ free_slots' = r.slots
          /\ gaps' = r.gaps
    /\ events' = EventsArgument(events)
    /\ pc' = "returned_again"
    /\ UNCHANGED <<work_start_time, work_end_time, min_slot_duration,
                   conf, item, should_include, n_items, total_duration,
                   total_effective_duration, total_work_time, free_percentage,
                   message, exit_code>>
    /\ UNCHANGED <<cli, account, range>>

NextCall == FindFreeSlotsCall \/ FindFreeSlotsAgain

SpecCall == InitCall /\ [][NextCall]_vars

-----------------------------------------------------------------------------
(* Time strings of the configuration: a string is the sequence of its
   characters *)

Digits == {"0", "1", "2", "3", "4", "5", "6", "7", "8", "9"}

DigitValue(c) ==
    CASE c = "0" -> 0 [] c = "1" -> 1 [] c = "2" -> 2 [] c = "3" -> 3
      [] c = "4" -> 4 [] c = "5" -> 5 [] c = "6" -> 6 [] c = "7" -> 7
      [] c = "8" -> 8 [] c = "9" -> 9

\* str.split(":")
RECURSIVE SplitColon(_)
SplitColon(str) ==
    IF str = <<>> THEN << <<>> >>
    ELSE LET rest == SplitColon(Tail(str))
         IN IF Head(str) = ":"
            THEN << <<>> >> \o rest
            ELSE << <<Head(str)>> \o rest[1] >> \o Tail(rest)

\* int(part) does not raise ValueError: an optional sign and at least one digit
IsInt(part) ==
    LET digits == IF part # <<>> /\ Head(part) \in {"-", "+"} THEN Tail(part) ELSE part
    IN digits # <<>> /\ \A k \in 1..Len(digits) : digits[k] \in Digits

RECURSIVE NatOf(_)
NatOf(digits) ==
    IF digits = <<>> THEN 0
    ELSE 10 * NatOf(SubSeq(digits, 1, Len(digits) - 1)) + DigitValue(digits[Len(digits)])

\* int(part)
IntOf(part) ==
    IF Head(part) = "-" THEN 0 - NatOf(Tail(part))
    ELSE IF Head(part) = "+" THEN NatOf(Tail(part))
    ELSE NatOf(part)

\* _is_valid_time_format(time_str)
IsValidTimeFormat(time_str) ==
    LET parts == SplitColon(time_str)
    IN /\ Len(parts) = 2
       /\ IsInt(parts[1])
       /\ IsInt(parts[2])
       /\ 0 <= IntOf(parts[1]) /\ IntOf(parts[1]) < HoursPerDay
       /\ 0 <= IntOf(parts[2]) /\ IntOf(parts[2]) < MinutesPerHour

\* "start_hours * 60 + start_minutes" of a time string in valid format
MinutesTotal(time_str) ==
    LET parts == SplitColon(time_str)
    IN IntOf(parts[1]) * MinutesPerHour + IntOf(parts[2])

\* parse_time(time_str): the datetime.time, or NoTime when the split, int()
\* or time() raises ValueError
ParseTime(time_str) ==
    LET parts == SplitColon(time_str)
    IN IF /\ Len(parts) = 2
          /\ IsInt(parts[1])
          /\ IsInt(parts[2])
          /\ 0 <= IntOf(parts[1]) /\ IntOf(parts[1]) < HoursPerDay
          /\ 0 <= IntOf(parts[2]) /\ IntOf(parts[2]) < MinutesPerHour
       THEN Time(IntOf(parts[1]), IntOf(parts[2]))
       ELSE NoTime

\* validate_config(config): "ok", or the error it prints before returning False
ValidateConfigTimesOnly(config) ==
    IF config.start_time = <<>> \/ ~IsValidTimeFormat(config.start_time)
    THEN "Invalid start time format"
    ELSE IF config.end_time = <<>> \/ ~IsValidTimeFormat(config.end_time)
    THEN "Invalid end time format"
    ELSE IF MinutesTotal(config.end_time) <= MinutesTotal(config.start_time)
    THEN "End time must be after start time"
    ELSE "ok"
ValidateConfig(config) ==
    IF config.start_time = <<>> \/ ~IsValidTimeFormat(config.start_time)
    THEN "Invalid start time format"
    ELSE IF config.end_time = <<>> \/ ~IsValidTimeFormat(config.end_time)
    THEN "Invalid end time format"
    ELSE IF MinutesTotal(config.end_time) <= MinutesTotal(config.start_time)
    THEN "End time must be after start time"
    ELSE IF config.use_oauth
    THEN IF config.client_id = "" THEN "client ID is not configured"
         ELSE IF config.tenant_id = "" THEN "Tenant ID is not configured"
         ELSE "ok"
    ELSE IF config.server = "" THEN "server address is not configured"
         ELSE "ok"

-----------------------------------------------------------------------------
(* Loading and updating the configuration file *)

T0900 == <<"0", "9", ":", "0", "0">>
T0945 == <<"0", "9", ":", "4", "5">>
T1030 == <<"1", "0", ":", "3", "0">>
T1100 == <<"1", "1", ":", "0", "0">>
T1800 == <<"1", "8", ":", "0", "0">>
T0960 == <<"0", "9", ":", "6", "0">>
THour == <<"9">>

\* load_config: "Default configuration"
DefaultConfig ==
    [server |-> "", start_time |-> T0900, end_time |-> T1800,
     client_id |-> "", tenant_id |-> "", use_oauth |-> TRUE]

\* truthiness of a time option: None and "" are both false
Given(option) == option # NoneArg /\ option # <<>>

\* the file's dictionary laid over the defaults; a file that cannot be read
\* or parsed prints a warning and leaves the defaults
FileConfig(file) ==
    IF file.kind = "file" THEN file.config ELSE DefaultConfig

\* load_config(app_dir, args)
LoadConfig(file, a) ==
    LET config == FileConfig(file)
    IN [server |-> IF a.server # "" THEN a.server ELSE config.server,
        start_time |-> IF Given(a.start_time) THEN a.start_time ELSE config.start_time,
        end_time |-> IF Given(a.end_time) THEN a.end_time ELSE config.end_time,
        client_id |-> IF a.client_id # "" THEN a.client_id ELSE config.client_id,
        tenant_id |-> IF a.tenant_id # "" THEN a.tenant_id ELSE config.tenant_id,
        use_oauth |-> IF a.use_oauth # "None" THEN a.use_oauth = "True"
                      ELSE config.use_oauth]

\* "hours, minutes = map(int, time_str.split(":"))" does not raise ValueError
Unpacks(time_str) ==
    LET parts == SplitColon(time_str)
    IN Len(parts) = 2 /\ IsInt(parts[1]) /\ IsInt(parts[2])

\* update_config(app_dir, args) up to "Save updated config": the dictionary
\* to save and "ok", or the error that ends the call
UpdateConfig(file, a) ==
    LET loaded == LoadConfig(file, NoArgs)
        config == LoadConfig([kind |-> "file", config |-> loaded], a)
    IN IF Given(a.start_time) /\ ~IsValidTimeFormat(a.start_time)
       THEN [result |-> "Invalid start time format", config |-> loaded]
       ELSE IF Given(a.end_time) /\ ~IsValidTimeFormat(a.end_time)
       THEN [result |-> "Invalid end time format", config |-> loaded]
       ELSE IF ~Unpacks(config.start_time) \/ ~Unpacks(config.end_time)
       THEN [result |-> "ValueError", config |-> loaded]
       ELSE IF MinutesTotal(config.end_time) <= MinutesTotal(config.start_time)
       THEN [result |-> "End time must be after start time.", config |-> loaded]
       ELSE [result |-> "ok", config |-> config]

-----------------------------------------------------------------------------
(* The date range of analyze_calendar *)

\* date.weekday(): Monday is 0
Weekday(date) == date % DaysPerWeek

\* start_date after "start_date += timedelta(days=-start_date.weekday(), weeks=-1)"
RangeStartThisWeek(date) == date - Weekday(date)
RangeStart(date) == date - Weekday(date) - DaysPerWeek

\* end_date = start_date + timedelta(days=4)
RangeEnd(start) == start + WorkWeekSpan

-----------------------------------------------------------------------------
(* The item filter of get_calendar_events *)

Absent == "absent"

HasAttr(value) == value # Absent

\* should_include of one CalendarItem, as the try block leaves it
ShouldIncludeTentative(it) ==
    LET accepted ==
            IF HasAttr(it.is_from_me) /\ it.is_from_me = "True" THEN TRUE
            ELSE IF HasAttr(it.my_response_type)
                 THEN it.my_response_type \in {"Accept", "Organizer", "Tentative"}
                 ELSE TRUE
    IN IF HasAttr(it.legacy_free_busy_status) /\ it.legacy_free_busy_status = "Free"
       THEN FALSE
       ELSE accepted

ShouldIncludeOrganizerFree(it) ==
    IF HasAttr(it.is_from_me) /\ it.is_from_me = "True" THEN TRUE
    ELSE IF HasAttr(it.legacy_free_busy_status) /\ it.legacy_free_busy_status = "Free"
         THEN FALSE
         ELSE IF HasAttr(it.my_response_type)
              THEN it.my_response_type \in {"Accept", "Organizer"}
              ELSE TRUE

ShouldInclude(it) ==
    LET accepted ==
            IF HasAttr(it.is_from_me) /\ it.is_from_me = "True" THEN TRUE
            ELSE IF HasAttr(it.my_response_type)
                 THEN it.my_response_type \in {"Accept", "Organizer"}
                 ELSE TRUE
    IN IF HasAttr(it.legacy_free_busy_status) /\ it.legacy_free_busy_status = "Free"
       THEN FALSE
       ELSE accepted

-----------------------------------------------------------------------------
(* analyze_calendar *)

\* len(events_by_date) of the grouping in analyze_calendar
NumEvents(evs) == Len(evs)
NumEventDates(evs) == Len(DateKeys(evs))

\* timedelta(hours=end.hour - start.hour, minutes=end.minute - start.minute)
WorkDayHours(start_time, end_time) ==
    (end_time.hour - start_time.hour) * MinutesPerHour
WorkDayDuration(start_time, end_time) ==
    (end_time.hour - start_time.hour) * MinutesPerHour
        + (end_time.minute - start_time.minute)

RECURSIVE SumOf(_, _)
SumOf(slots, field) ==
    IF slots = <<>> THEN 0
    ELSE SumOf(SubSeq(slots, 1, Len(slots) - 1), field) + slots[Len(slots)][field]

\* Inputs of a run

StartStrings == {T0900, T0945, T0960}
EndStrings == {T0945, T1100, THour, <<>>}

\* use_oauth, client_id, tenant_id, server
AuthSettings ==
    {[use_oauth |-> TRUE, client_id |-> "cid", tenant_id |-> "tid", server |-> ""],
     [use_oauth |-> TRUE, client_id |-> "", tenant_id |-> "tid", server |-> ""],
     [use_oauth |-> TRUE, client_id |-> "cid", tenant_id |-> "", server |-> "srv"],
     [use_oauth |-> FALSE, client_id |-> "", tenant_id |-> "", server |-> "srv"],
     [use_oauth |-> FALSE, client_id |-> "cid", tenant_id |-> "tid", server |-> ""]}

Configs ==
    {[start_time |-> st, end_time |-> et, use_oauth |-> a.use_oauth,
      client_id |-> a.client_id, tenant_id |-> a.tenant_id, server |-> a.server] :
        st \in StartStrings, et \in EndStrings, a \in AuthSettings}

\* the items of the calendar view: CalendarItem objects with the attributes
\* the filter probes, and objects of another class
CalendarItems ==
    [kind : {"CalendarItem"},
     is_from_me : {Absent, "False", "True"},
     \* str(item.my_response_type); "None" when the attribute holds None
     my_response_type : {Absent, "Accept", "Organizer", "Tentative", "Decline", "None"},
     legacy_free_busy_status : {Absent, "Free", "Busy"}]

OtherItem == [kind |-> "other"]

ViewItems == CalendarItems \cup {OtherItem}

\* times of day items start and end at: 09:00, 09:45, 10:30
ItemTimes == {Time(9, 0), Time(9, 45), Time(10, 30)}

\* start and end of an item, in the account's time zone
ItemEvents ==
    {[start |-> Combine(d, t1), end |-> Combine(d, t2)] :
        d \in Dates, t1 \in ItemTimes, t2 \in {t \in ItemTimes : MinuteOfDay(t) > 0}}
    \cap {e \in [start : Int, end : Int] : e.start < e.end}

Init ==
    /\ pc = "analyze_calendar"
    /\ conf \in Configs
    /\ events = <<>>
    /\ work_start_time = NoTime
    /\ work_end_time = NoTime
    /\ min_slot_duration = 0
    /\ free_slots = <<>>
    /\ gaps = <<>>
    /\ item = NoItem
    /\ should_include = FALSE
    /\ n_items = 0
    /\ total_duration = 0
    /\ total_effective_duration = 0
    /\ total_work_time = 0
    /\ free_percentage = 0
    /\ message = ""
    /\ exit_code = NoExit
    /\ mode = "analyze"
    /\ args = NoArgs
    /\ config_file = Missing
    /\ token = TRUE
    /\ account = "none"
    /\ today = DaysPerWeek
    /\ start_date = NoDate
    /\ end_date = NoDate

\* sys.exit(code) after printing text
Exit(code, text) ==
    /\ pc' = "exit"
    /\ exit_code' = code
    /\ message' = text

\* analyze_calendar: "Validate configuration"
AnalyzeValidate ==
    /\ pc = "analyze_calendar"
    /\ IF ValidateConfig(conf) = "ok"
       THEN pc' = "get_account" /\ UNCHANGED <<exit_code, message>>
       ELSE Exit(1, ValidateConfig(conf))
    /\ UNCHANGED <<events, work_start_time, work_end_time, min_slot_duration,
                   free_slots, gaps, conf, item, should_include, n_items,
                   total_duration, total_effective_duration, total_work_time,
                   free_percentage>>
    /\ UNCHANGED <<cli, account, range>>

\* analyze_calendar: "Get authenticated account"; whether the saved token
\* yields an account is decided outside the program
GetAccount ==
    /\ pc = "get_account"
    /\ IF ~token
       THEN Exit(1, "Not authenticated") /\ UNCHANGED account
       ELSE \E connected \in BOOLEAN :
               IF connected
               THEN /\ account' = "built"
                    /\ pc' = "parse_time"
                    /\ UNCHANGED <<exit_code, message>>
               ELSE /\ account' = "failed"
                    /\ Exit(1, "Authentication failed")
    /\ UNCHANGED <<events, work_start_time, work_end_time, min_slot_duration,
                   free_slots, gaps, conf, item, should_include, n_items,
                   total_duration, total_effective_duration, total_work_time,
                   free_percentage>>
    /\ UNCHANGED <<cli, range>>

\* analyze_calendar: "Parse work hours"
ParseWorkHours ==
    /\ pc = "parse_time"
    /\ IF ParseTime(conf.start_time) = NoTime \/ ParseTime(conf.end_time) = NoTime
       THEN /\ Exit(1, "Invalid time format in configuration")
            /\ UNCHANGED <<work_start_time, work_end_time>>
       ELSE /\ work_start_time' = ParseTime(conf.start_time)
            /\ work_end_time' = ParseTime(conf.end_time)
            /\ pc' = "date_range"
            /\ UNCHANGED <<exit_code, message>>
    /\ UNCHANGED <<events, min_slot_duration, free_slots, gaps, conf, item,
                   should_include, n_items, total_duration,
                   total_effective_duration, total_work_time, free_percentage>>
    /\ UNCHANGED <<cli, account, range>>

\* analyze_calendar: "Calculate date range (past week)"
DateRange ==
    /\ pc = "date_range"
    /\ start_date' = RangeStart(today)
    /\ end_date' = RangeEnd(RangeStart(today))
    /\ pc' = "get_calendar_events"
    /\ UNCHANGED <<events, work_start_time, work_end_time, min_slot_duration,
                   free_slots, gaps, conf, item, should_include, n_items,
                   total_duration, total_effective_duration, total_work_time,
                   free_percentage, message, exit_code>>
    /\ UNCHANGED <<cli, account, today>>

\* get_calendar_events: one pass of "for item in calendar_items"
FilterItem ==
    /\ pc = "get_calendar_events"
    /\ n_items < MaxItems
    /\ \E it \in ViewItems, ev \in ItemEvents :
          /\ item' = it
          /\ IF it.kind = "CalendarItem"
             THEN /\ should_include' = ShouldInclude(it)
                  /\ events' = IF ShouldInclude(it) THEN Append(events, ev) ELSE events
             ELSE UNCHANGED <<should_include, events>>
    /\ n_items' = n_items + 1
    /\ UNCHANGED <<pc, work_start_time, work_end_time, min_slot_duration,
                   free_slots, gaps, conf, total_duration,
                   total_effective_duration, total_work_time, free_percentage,
                   message, exit_code>>
    /\ UNCHANGED <<cli, account, range>>

\* the except clause ending the run with status 0
RetrievalFailsExitsZero ==
    /\ pc = "get_calendar_events"
    /\ Exit(0, "Error retrieving calendar events")
    /\ UNCHANGED <<events, work_start_time, work_end_time, min_slot_duration,
                   free_slots, gaps, conf, item, should_include, n_items,
                   total_duration, total_effective_duration, total_work_time,
                   free_percentage>>
    /\ UNCHANGED <<cli, account, range>>

\* get_calendar_events: an exception of the calendar view is caught, printed
\* and ends the run
RetrievalFails ==
    /\ pc = "get_calendar_events"
    /\ Exit(1, "Error retrieving calendar events")
    /\ UNCHANGED <<events, work_start_time, work_end_time, min_slot_duration,
                   free_slots, gaps, conf, item, should_include, n_items,
                   total_duration, total_effective_duration, total_work_time,
                   free_percentage>>
    /\ UNCHANGED <<cli, account, range>>

\* analyze_calendar: "if not events"
NeverEmpty(evs) == FALSE
NoEvents(evs) == evs = <<>>

\* get_calendar_events returns; analyze_calendar: "if not events"
ReturnEvents ==
    /\ pc = "get_calendar_events"
    /\ IF NoEvents(events)
       THEN Exit(0, "No calendar events found for the specified period.")
       ELSE pc' = "find_free_slots" /\ UNCHANGED <<exit_code, message>>
    /\ UNCHANGED <<events, work_start_time, work_end_time, min_slot_duration,
                   free_slots, gaps, conf, item, should_include, n_items,
                   total_duration, total_effective_duration, total_work_time,
                   free_percentage>>
    /\ UNCHANGED <<cli, account, range>>

\* analyze_calendar: "Find free slots"
FindSlots ==
    /\ pc = "find_free_slots"
    /\ min_slot_duration' = MinSlotMinutes
    /\ LET r == FindFreeSlots(events, work_start_time, work_end_time, MinSlotMinutes)
       IN /\ free_slots' = r.slots
          /\ gaps' = r.gaps
    /\ pc' = "summary"
    /\ UNCHANGED <<events, work_start_time, work_end_time, conf, item,
                   should_include, n_items, total_duration,
                   total_effective_duration, total_work_time, free_percentage,
                   message, exit_code>>
    /\ UNCHANGED <<cli, account, range>>

\* analyze_calendar: "Print free slots", up to the total work time
Summary ==
    /\ pc = "summary"
    /\ IF free_slots # <<>>
       THEN /\ total_duration' = SumOf(free_slots, "duration")
            /\ total_effective_duration' = SumOf(free_slots, "effective_duration")
            /\ total_work_time' =
                  WorkDayDuration(work_start_time, work_end_time) * NumEventDates(events)
            /\ pc' = "percentage"
            /\ UNCHANGED <<exit_code, message>>
       ELSE /\ Exit(0, "No free time slots found.")
            /\ UNCHANGED <<total_duration, total_effective_duration, total_work_time>>
    /\ UNCHANGED <<events, work_start_time, work_end_time, min_slot_duration,
                   free_slots, gaps, conf, item, should_include, n_items,
                   free_percentage>>
    /\ UNCHANGED <<cli, account, range>>

\* analyze_calendar: "Calculate percentage", in hundredths of a percent; the
\* division raises ZeroDivisionError, which nothing catches, when the total
\* work time is zero
Percentage ==
    /\ pc = "percentage"
    /\ IF total_work_time = 0
       THEN /\ Exit(1, "ZeroDivisionError")
            /\ UNCHANGED free_percentage
       ELSE /\ free_percentage' = (total_effective_duration * 10000) \div total_work_time
            /\ Exit(0, "Free time percentage")
    /\ UNCHANGED <<events, work_start_time, work_end_time, min_slot_duration,
                   free_slots, gaps, conf, item, should_include, n_items,
                   total_duration, total_effective_duration, total_work_time>>
    /\ UNCHANGED <<cli, account, range>>

Next ==
    \/ AnalyzeValidate
    \/ GetAccount
    \/ ParseWorkHours
    \/ DateRange
    \/ FilterItem
    \/ RetrievalFails
    \/ ReturnEvents
    \/ FindSlots
    \/ Summary
    \/ Percentage

Spec == Init /\ [][Next]_vars

-----------------------------------------------------------------------------
(* The date range alone: analyze_calendar on any current date *)

InitRange ==
    /\ pc = "date_range"
    /\ conf = [DefaultConfig EXCEPT !.client_id = "cid", !.tenant_id = "tid"]
    /\ events = <<>>
    /\ work_start_time = ParseTime(T0900)
    /\ work_end_time = ParseTime(T1800)
    /\ min_slot_duration = 0
    /\ free_slots = <<>>
    /\ gaps = <<>>
    /\ item = NoItem
    /\ should_include = FALSE
    /\ n_items = 0
    /\ total_duration = 0
    /\ total_effective_duration = 0
    /\ total_work_time = 0
    /\ free_percentage = 0
    /\ message = ""
    /\ exit_code = NoExit
    /\ mode = "analyze"
    /\ args = NoArgs
    /\ config_file = Missing
    /\ token = TRUE
    /\ account = "built"
    /\ today \in DaysPerWeek .. DaysPerWeek + MaxToday
    /\ start_date = NoDate
    /\ end_date = NoDate

NextRange == DateRange

SpecRange == InitRange /\ [][NextRange]_vars

-----------------------------------------------------------------------------
(* main: one run of the command line *)

NoConfig == [kind |-> "none"]

Modes == {"none", "auth", "analyze", "config"}

\* configuration files a run can find
FileOAuth ==
    [server |-> "", start_time |-> T0900, end_time |-> T1030,
     client_id |-> "cid", tenant_id |-> "tid", use_oauth |-> TRUE]
FileNoServer ==
    [server |-> "", start_time |-> T0945, end_time |-> T1030,
     client_id |-> "", tenant_id |-> "", use_oauth |-> FALSE]
FileBadTime ==
    [server |-> "", start_time |-> T0900, end_time |-> THour,
     client_id |-> "cid", tenant_id |-> "tid", use_oauth |-> TRUE]

ConfigFiles ==
    {Missing, Corrupt} \cup
    {[kind |-> "file", config |-> c] : c \in {FileOAuth, FileNoServer, FileBadTime}}

\* --client-id cid --tenant-id tid
IdArgs == [NoArgs EXCEPT !.client_id = "cid", !.tenant_id = "tid"]

\* command lines of the config subcommand
ConfigArgs ==
    {[NoArgs EXCEPT !.start_time = st, !.end_time = et, !.server = sv] :
        st \in {NoneArg, <<>>, T0900, T0945, T0960, THour},
        et \in {NoneArg, T0945, T1030, THour},
        sv \in {"", "srv"}}

ArgsOf(m) ==
    IF m = "config" THEN ConfigArgs
    ELSE IF m = "none" THEN {NoArgs}
    ELSE {NoArgs, IdArgs}

InitMain ==
    /\ pc = "main"
    /\ mode \in Modes
    /\ args \in ArgsOf(mode)
    /\ config_file \in ConfigFiles
    /\ token \in BOOLEAN
    /\ conf = NoConfig
    /\ account = "none"
    /\ events = <<>>
    /\ work_start_time = NoTime
    /\ work_end_time = NoTime
    /\ min_slot_duration = 0
    /\ free_slots = <<>>
    /\ gaps = <<>>
    /\ item = NoItem
    /\ should_include = FALSE
    /\ n_items = 0
    /\ total_duration = 0
    /\ total_effective_duration = 0
    /\ total_work_time = 0
    /\ free_percentage = 0
    /\ message = ""
    /\ exit_code = NoExit
    /\ today = DaysPerWeek
    /\ start_date = NoDate
    /\ end_date = NoDate

\* everything of the analysis, which main's own steps leave alone
analysis == <<events, work_start_time, work_end_time, min_slot_duration,
              free_slots, gaps, item, should_include, n_items, total_duration,
              total_effective_duration, total_work_time, free_percentage,
              account, range>>

\* main: "if not args.mode"
MainNoMode ==
    /\ pc = "main"
    /\ mode = "none"
    /\ Exit(1, "No mode specified")
    /\ UNCHANGED <<conf, cli, analysis>>

\* main: "Load configuration"
MainLoadConfig ==
    /\ pc = "main"
    /\ mode # "none"
    /\ conf' = LoadConfig(config_file, args)
    /\ message' = IF config_file = Corrupt THEN "Warning: Failed to load config file"
                  ELSE message
    /\ pc' = "mode"
    /\ UNCHANGED <<exit_code, cli, analysis>>

\* a configuration authenticate_oauth or authenticate_legacy can start from
AuthFieldsGiven(config) ==
    IF config.use_oauth THEN config.client_id # "" /\ config.tenant_id # ""
    ELSE config.server # ""

\* main: mode "auth"; whether the service accepts the credentials and the
\* token is saved is decided outside the program
MainAuthenticate ==
    /\ pc = "mode"
    /\ mode = "auth"
    /\ \E accepted \in BOOLEAN :
          IF AuthFieldsGiven(conf) /\ accepted
          THEN /\ token' = TRUE
               /\ Exit(0, "Authentication successful")
          ELSE /\ token' = token
               /\ Exit(1, "Authentication failed")
    /\ UNCHANGED <<conf, mode, args, config_file, analysis>>

\* main: mode "analyze", "Check if token exists"
MainTokenExists ==
    /\ pc = "mode"
    /\ mode = "analyze"
    /\ IF token
       THEN pc' = "validate_config" /\ UNCHANGED <<exit_code, message>>
       ELSE Exit(1, "Not authenticated")
    /\ UNCHANGED <<conf, cli, analysis>>

\* main: mode "analyze", "Validate configuration", then "Run analysis"
MainValidate ==
    /\ pc = "validate_config"
    /\ IF ValidateConfig(conf) = "ok"
       THEN pc' = "analyze_calendar" /\ UNCHANGED <<exit_code, message>>
       ELSE Exit(1, ValidateConfig(conf))
    /\ UNCHANGED <<conf, cli, analysis>>

\* update_config as main calls it: "Save updated config" writes the file
\* unless open raises IOError; a ValueError of the time check is not caught
\* and ends the process with status 1
UpdateConfigRun(a) ==
    LET u == UpdateConfig(config_file, a)
    IN \E written \in BOOLEAN :
          IF u.result = "ok" /\ written
          THEN /\ config_file' = [kind |-> "file", config |-> u.config]
               /\ exit_code' = 0
               /\ message' = "Configuration updated successfully."
          ELSE /\ config_file' = config_file
               /\ exit_code' = 1
               /\ message' = IF u.result = "ok" THEN "Failed to save config file"
                             ELSE u.result

\* main: mode "config"
MainUpdateConfig ==
    /\ pc = "mode"
    /\ mode = "config"
    /\ UpdateConfigRun(args)
    /\ pc' = "exit"
    /\ UNCHANGED <<conf, mode, args, token, analysis>>

NextMain ==
    \/ MainNoMode
    \/ MainLoadConfig
    \/ MainAuthenticate
    \/ MainTokenExists
    \/ MainValidate
    \/ MainUpdateConfig
    \/ Next

SpecMain == InitMain /\ [][NextMain]_vars

-----------------------------------------------------------------------------
(* The config subcommand run again and again, from no configuration file *)

InitConfig ==
    /\ pc = "update_config"
    /\ mode = "config"
    /\ args = NoArgs
    /\ config_file = Missing
    /\ token = FALSE
    /\ conf = NoConfig
    /\ account = "none"
    /\ events = <<>>
    /\ work_start_time = NoTime
    /\ work_end_time = NoTime
    /\ min_slot_duration = 0
    /\ free_slots = <<>>
    /\ gaps = <<>>
    /\ item = NoItem
    /\ should_include = FALSE
    /\ n_items = 0
    /\ total_duration = 0
    /\ total_effective_duration = 0
    /\ total_work_time = 0
    /\ free_percentage = 0
    /\ message = ""
    /\ exit_code = NoExit
    /\ today = DaysPerWeek
    /\ start_date = NoDate
    /\ end_date = NoDate

\* one run of "calendar-tool config" with some options
UpdateConfigCall ==
    /\ pc = "update_config"
    /\ \E a \in ConfigArgs :
          /\ args' = a
          /\ UpdateConfigRun(a)
    /\ UNCHANGED <<pc, conf, mode, token, analysis>>

NextConfig == UpdateConfigCall

SpecConfig == InitConfig /\ [][NextConfig]_vars

-----------------------------------------------------------------------------
(* Properties of find_free_slots, checked under SpecCall *)

Returned == pc = "returned"

ValidWindow == MinuteOfDay(work_start_time) < MinuteOfDay(work_end_time)

SlotFrom(s) == Combine(s.date, s.start)
SlotTo(s) == Combine(s.date, s.end)

Indices(seq) == 1 .. Len(seq)

\* every event of the list starts and ends on one and the same date
OnOneDate(evs) ==
    \A i, j \in Indices(evs) :
        /\ DateOf(evs[i].start) = DateOf(evs[j].start)
        /\ DateOf(evs[i].end) = DateOf(evs[i].start)

Overlap(from1, to1, from2, to2) == from1 < to2 /\ from2 < to1

PairwiseDisjoint(evs) ==
    \A i, j \in Indices(evs) :
        i # j => ~Overlap(evs[i].start, evs[i].end, evs[j].start, evs[j].end)

\* the events lie inside the work window of their (start) date
InsideWindow(evs) ==
    \A i \in Indices(evs) :
        /\ Combine(DateOf(evs[i].start), work_start_time) <= evs[i].start
        /\ evs[i].end <= Combine(DateOf(evs[i].start), work_end_time)

\* a candidate gap was emitted as a free slot
Emitted(g) ==
    \E j \in Indices(free_slots) :
        /\ free_slots[j].date = g.date
        /\ free_slots[j].start = g.start
        /\ free_slots[j].end = g.end
        /\ free_slots[j].duration = g.duration

\* the pieces of the day: returned slots, busy intervals, and the candidate
\* gaps dropped for being shorter than the minimum duration
Pieces ==
    [i \in Indices(free_slots) |->
        [from |-> SlotFrom(free_slots[i]), to |-> SlotTo(free_slots[i])]]
    \o [i \in Indices(events) |-> [from |-> events[i].start, to |-> events[i].end]]
    \o SelectSeq([i \in Indices(gaps) |->
                    [from |-> SlotFrom(gaps[i]), to |-> SlotTo(gaps[i]),
                     duration |-> gaps[i].duration]],
                 LAMBDA g : g.duration < min_slot_duration)

\* the pieces cover [from, to) exactly and no two of them overlap: every piece
\* is a non-empty interval inside [from, to], and each point where a piece
\* or the window begins lies in exactly one piece
Partition(pieces, from, to) ==
    /\ \A i \in Indices(pieces) :
          from <= pieces[i].from /\ pieces[i].from < pieces[i].to /\ pieces[i].to <= to
    /\ \A p \in {from} \cup {pieces[i].from : i \in Indices(pieces)}
                       \cup {pieces[i].to : i \in Indices(pieces)} :
          p < to =>
            Cardinality({i \in Indices(pieces) :
                            pieces[i].from <= p /\ p < pieces[i].to}) = 1

C1_Case ==
    /\ Returned
    /\ ValidWindow
    /\ events # <<>>
    /\ OnOneDate(events)
    /\ PairwiseDisjoint(events)
    /\ InsideWindow(events)

\* C1: for a valid work window and a non-empty list of pairwise
\* non-overlapping busy intervals of one date inside the window, the returned
\* slots, the busy intervals and the gaps dropped for being shorter than the
\* minimum duration partition [window.start, window.end) of that date.
C1_Partition ==
    C1_Case =>
        Partition(Pieces,
                  Combine(DateOf(events[1].start), work_start_time),
                  Combine(DateOf(events[1].start), work_end_time))

\* two busy intervals given out of order, a slot returned and a gap dropped
C1_Witness ==
    /\ C1_Case
    /\ Len(events) >= 2
    /\ events[1].start > events[2].start
    /\ free_slots # <<>>
    /\ \E i \in Indices(gaps) : gaps[i].duration < min_slot_duration

\* C2: for any list of busy intervals of one date (overlapping, nested,
\* unsorted), every returned slot has strictly positive duration and overlaps
\* no busy interval.
C2_NoSlotInsideBusy ==
    (Returned /\ OnOneDate(events)) =>
        \A i \in Indices(free_slots) :
            /\ free_slots[i].duration > 0
            /\ SlotFrom(free_slots[i]) < SlotTo(free_slots[i])
            /\ \A j \in Indices(events) :
                  ~Overlap(SlotFrom(free_slots[i]), SlotTo(free_slots[i]),
                           events[j].start, events[j].end)

\* two intervals that overlap without one holding the other, the later one
\* given first, and a slot returned after the merged region
C2_Witness ==
    /\ Returned
    /\ OnOneDate(events)
    /\ Len(events) = 2
    /\ events[2].start < events[1].start
    /\ events[1].start < events[2].end
    /\ events[2].end < events[1].end
    /\ free_slots # <<>>

\* C3: a candidate gap is emitted as a free slot if and only if its duration
\* is at least the minimum duration, and nothing else is emitted.
C3_EmittedIffLongEnough ==
    Returned =>
        /\ \A i \in Indices(gaps) :
              Emitted(gaps[i]) <=> gaps[i].duration >= min_slot_duration
        /\ \A j \in Indices(free_slots) :
              \E i \in Indices(gaps) :
                  /\ gaps[i].date = free_slots[j].date
                  /\ gaps[i].start = free_slots[j].start
                  /\ gaps[i].end = free_slots[j].end

\* a gap of exactly the minimum is emitted and a gap one minute shorter is not
C3_Witness ==
    /\ Returned
    /\ \E i \in Indices(gaps) :
          gaps[i].duration = min_slot_duration /\ Emitted(gaps[i])
    /\ \E i \in Indices(gaps) :
          gaps[i].duration = min_slot_duration - 1 /\ ~Emitted(gaps[i])

\* C4: the slots returned for a date are those returned for the events that
\* start on that date alone, and every slot lies inside the work window of
\* its own date with duration = end - start.
C4_DatesIndependent ==
    Returned =>
        /\ \A d \in Dates :
              SelectSeq(free_slots, LAMBDA s : s.date = d)
                = FindFreeSlots(SelectSeq(events, LAMBDA e : DateOf(e.start) = d),
                                work_start_time, work_end_time,
                                min_slot_duration).slots
        /\ \A i \in Indices(free_slots) :
              /\ MinuteOfDay(work_start_time) <= MinuteOfDay(free_slots[i].start)
              /\ MinuteOfDay(free_slots[i].start) < MinuteOfDay(free_slots[i].end)
              /\ MinuteOfDay(free_slots[i].end) <= MinuteOfDay(work_end_time)
              /\ free_slots[i].duration
                   = MinuteOfDay(free_slots[i].end) - MinuteOfDay(free_slots[i].start)

\* events of two dates, one of them ending the day after it starts, and
\* slots returned for both dates
C4_Witness ==
    /\ Returned
    /\ \E i \in Indices(events) : DateOf(events[i].end) > DateOf(events[i].start)
    /\ \E i, j \in Indices(free_slots) : free_slots[i].date # free_slots[j].date

\* C5: the returned list is ordered by date ascending and, within a date, by
\* start time ascending.
C5_OrderedByDateThenStart ==
    Returned =>
        \A i, j \in Indices(free_slots) :
            i < j =>
                \/ free_slots[i].date < free_slots[j].date
                \/ /\ free_slots[i].date = free_slots[j].date
                   /\ MinuteOfDay(free_slots[i].start) <= MinuteOfDay(free_slots[j].start)

\* C6: a call with window.start >= window.end fails instead of returning a
\* slot list, so find_free_slots returns only for a valid window.
C6_InvalidWindowRejected == Returned => ValidWindow

-----------------------------------------------------------------------------
(* Properties of the item filter and of analyze_calendar, checked under Spec *)

\* the filter has just looked at a CalendarItem
FilteredCalendarItem == n_items' = n_items + 1 /\ item'.kind = "CalendarItem"

MarkedFree(it) == it.legacy_free_busy_status = "Free"

\* organized by the calling user, or accepted, or no response status at all
Committed(it) ==
    \/ it.is_from_me = "True"
    \/ it.my_response_type \in {"Accept", "Organizer"}
    \/ it.my_response_type = Absent

C8_FreeNeverKept ==
    [][(FilteredCalendarItem /\ MarkedFree(item'))
          => ~should_include' /\ events' = events]_vars

\* an item of the calling user, accepted and marked Free, was dropped
C8_Witness ==
    /\ item.kind = "CalendarItem"
    /\ MarkedFree(item)
    /\ item.is_from_me = "True"
    /\ item.my_response_type = "Accept"
    /\ ~should_include
    /\ n_items = 1
    /\ events = <<>>

\* the dates on which a retrieved event starts
EventDates == {DateOf(events[i].start) : i \in Indices(events)}

\* C9: the total work time is (window.end - window.start) times the number
\* of distinct dates with a retrieved event.
C9_TotalWorkTime ==
    pc = "percentage" =>
        total_work_time =
            (MinuteOfDay(work_end_time) - MinuteOfDay(work_start_time))
                * Cardinality(EventDates)

\* a window off the whole hours with a negative minute difference, events
\* on two dates
C9_Witness ==
    /\ pc = "percentage"
    /\ work_end_time.minute < work_start_time.minute
    /\ Cardinality(EventDates) = 2

\* C10: the division by the total work time is never executed with a zero
\* denominator.
C10_NoZeroDenominator ==
    /\ pc = "percentage" => total_work_time # 0
    /\ message # "ZeroDivisionError"

\* the percentage was computed
C10_Witness ==
    /\ pc = "exit"
    /\ message = "Free time percentage"
    /\ exit_code = 0
    /\ total_work_time > 0

-----------------------------------------------------------------------------
(* Further properties of analyze_calendar, checked under Spec *)

NoEventsMessage == "No calendar events found for the specified period."
NoSlotsMessage == "No free time slots found."

\* C11: find_free_slots returns an empty list for an empty event list, and
\* analyze_calendar reports "no calendar events found" exactly when the
\* retrieved event list is empty, and "no free time slots found" only when
\* the list is non-empty and every candidate gap was below the threshold.
C11_ReportByEventList ==
    /\ work_start_time # NoTime =>
          FindFreeSlots(<<>>, work_start_time, work_end_time, MinSlotMinutes).slots = <<>>
    /\ (pc = "exit" /\ exit_code = 0 /\ mode = "analyze") =>
          (message = NoEventsMessage <=> events = <<>>)
    /\ pc \in {"find_free_slots", "summary", "percentage"} => events # <<>>
    /\ message = NoSlotsMessage =>
          /\ events # <<>>
          /\ free_slots = <<>>
          /\ \A i \in Indices(gaps) : gaps[i].duration < min_slot_duration

\* events were retrieved, gaps were looked at, all were too short
C11_Witness ==
    /\ pc = "exit"
    /\ message = NoSlotsMessage
    /\ events # <<>>
    /\ gaps # <<>>

\* C19: the totals satisfy 0 <= total effective free duration <= total free
\* duration <= total work time, and the percentage lies between 0 and 100.
C19_TotalsOrdered ==
    /\ pc = "percentage" =>
          /\ 0 <= total_effective_duration
          /\ total_effective_duration <= total_duration
          /\ total_duration <= total_work_time
    /\ 0 <= free_percentage /\ free_percentage <= 10000

\* two slots were summed and the effective total is strictly between 0 and
\* the free total
C19_Witness ==
    /\ pc = "percentage"
    /\ Len(free_slots) >= 2
    /\ 0 < total_effective_duration
    /\ total_effective_duration < total_duration

-----------------------------------------------------------------------------
(* Further properties of find_free_slots, checked under SpecCall *)

\* C12: every returned slot has duration = end - start and effective_duration
\* = duration - minimum duration, and effective_duration is never negative.
C12_SlotDurations ==
    pc \in {"returned", "returned_again"} =>
        \A i \in Indices(free_slots) :
            /\ free_slots[i].duration
                 = MinuteOfDay(free_slots[i].end) - MinuteOfDay(free_slots[i].start)
            /\ free_slots[i].effective_duration
                 = free_slots[i].duration - min_slot_duration
            /\ free_slots[i].effective_duration >= 0

\* a slot of exactly the minimum (effective duration 0) and a longer one
C12_Witness ==
    /\ Returned
    /\ \E i \in Indices(free_slots) : free_slots[i].effective_duration = 0
    /\ \E i \in Indices(free_slots) : free_slots[i].effective_duration > 0

-----------------------------------------------------------------------------
(* Properties of a run of main, checked under SpecMain *)

\* the configuration the run works with: the file under the command line
Effective == LoadConfig(config_file, args)

WorkHoursValid(c) ==
    /\ ParseTime(c.start_time) # NoTime
    /\ ParseTime(c.end_time) # NoTime
    /\ MinuteOfDay(ParseTime(c.start_time)) < MinuteOfDay(ParseTime(c.end_time))

RequiredAuthFields(c) ==
    IF c.use_oauth THEN {c.client_id, c.tenant_id} ELSE {c.server}

AuthFieldsPresent(c) == "" \notin RequiredAuthFields(c)

ConfigComplete(c) == WorkHoursValid(c) /\ AuthFieldsPresent(c)

SuccessMessages ==
    {"Authentication successful", NoEventsMessage, NoSlotsMessage,
     "Free time percentage", "Configuration updated successfully."}

\* C14: a run ends with exit code 0 when the subcommand succeeded and with
\* exit code 1 when a validation, authentication or retrieval step failed:
\* the exit code is 0 exactly when the last thing reported is a success, and
\* an analyze or auth run that ends with 0 had a token, a complete
\* configuration and (analyze) an account.
C14_ExitCodeBySuccess ==
    pc = "exit" =>
        /\ exit_code \in {0, 1}
        /\ exit_code = 0 <=> message \in SuccessMessages
        /\ mode = "none" => exit_code = 1
        /\ (exit_code = 0 /\ mode = "analyze") =>
              token /\ ConfigComplete(Effective) /\ account = "built"
        /\ (exit_code = 0 /\ mode = "auth") =>
              token /\ AuthFieldsPresent(Effective)
        /\ (exit_code = 0 /\ mode = "config") =>
              config_file.kind = "file" /\ WorkHoursValid(config_file.config)

\* an analyze run whose retrieval failed after the account was built
C14_Witness ==
    /\ pc = "exit"
    /\ mode = "analyze"
    /\ account = "built"
    /\ message = "Error retrieving calendar events"
    /\ exit_code = 1

C16_LoadFailureEndsRun ==
    config_file = Corrupt => (pc = "main" \/ (pc = "exit" /\ exit_code = 1))

-----------------------------------------------------------------------------
(* Properties of update_config, checked under SpecConfig *)

\* a time option that is given and is not what _is_valid_time_format accepts
Malformed(option) == option # NoneArg /\ ~IsValidTimeFormat(option)

\* the times the file would hold with the well-formed options applied
TimesAfter(file, a) ==
    LET old == FileConfig(file)
    IN [start_time |-> IF a.start_time # NoneArg THEN a.start_time ELSE old.start_time,
        end_time |-> IF a.end_time # NoneArg THEN a.end_time ELSE old.end_time]

PersistedTimesValid ==
    config_file.kind = "file" =>
        /\ IsValidTimeFormat(config_file.config.start_time)
        /\ IsValidTimeFormat(config_file.config.end_time)
        /\ MinutesTotal(config_file.config.start_time)
             < MinutesTotal(config_file.config.end_time)

\* C17: after any sequence of update_config calls the persisted file has
\* start_time strictly before end_time in valid format, and an update that
\* carries a malformed time, or would make end_time <= start_time, returns
\* failure and leaves the file unchanged.
C17_BadUpdateRejected ==
    /\ []PersistedTimesValid
    /\ [][(\/ Malformed(args'.start_time)
           \/ Malformed(args'.end_time)
           \/ ~WorkHoursValid(TimesAfter(config_file, args')))
          => (exit_code' = 1 /\ config_file' = config_file)]_vars

-----------------------------------------------------------------------------
(* Properties of the date range, checked under SpecRange *)

RangeComputed == start_date # NoDate

\* a Monday after start_date whose Friday is before the current date
LaterCompletedWeek ==
    \E monday \in (start_date + 1) .. today :
        Weekday(monday) = 0 /\ monday + WorkWeekSpan < today

RangeIsWorkWeekBeforeToday ==
    /\ Weekday(start_date) = 0
    /\ end_date = start_date + 4
    /\ Weekday(end_date) = 4
    /\ end_date < today

\* C18 as stated: for every current date the range is a Monday to Friday
\* before the current date, and no later completed Monday-Friday week exists.
C18_MostRecentlyCompleted ==
    RangeComputed => (RangeIsWorkWeekBeforeToday /\ ~LaterCompletedWeek)

\* C18, amended: the range is the Monday to Friday of the calendar week
\* before the week of the current date; it lies before the current date, and
\* it is the most recently completed work week exactly when the current date
\* is a Monday to Friday: on a Saturday or Sunday the week that ended the day
\* or two before is later and is not the one chosen.
C18_WeekBeforeCurrentWeek ==
    RangeComputed =>
        /\ RangeIsWorkWeekBeforeToday
        /\ (today - Weekday(today)) - start_date = DaysPerWeek
        /\ LaterCompletedWeek <=> Weekday(today) \in {5, 6}

\* the range computed on a Saturday, with the week just ended left out
C18_Witness ==
    /\ RangeComputed
    /\ Weekday(today) = 5
    /\ LaterCompletedWeek

====
